---- MODULE Spec2Model ----
(***************************************************************************)
(* Accessible modal form: the Page (host surface, src/src/Page.tsx) and    *)
(* the Modal (modal engine, src/src/Modal.tsx).                            *)
(*                                                                         *)
(* The program is event driven and single threaded.  Every action below    *)
(* is one browser event (a click, a key press, a change, a timer) together *)
(* with everything React does before the next event is taken: the event    *)
(* handlers, the batched state updates, the re-render, the DOM commit and  *)
(* the passive effects (cleanup, then effect body) of that render.         *)
(***************************************************************************)
EXTENDS Integers, Sequences, FiniteSets, TLC

(***************************************************************************)
(* Bounds of the model.                                                    *)
(***************************************************************************)
\* number of calls of openFormModal in one behaviour
MaxOpens == 2
\* longest input string given to validateField in SpecValidate
MaxLen == 5

(***************************************************************************)
(* Program constants.                                                      *)
(***************************************************************************)
\* `value.trim().length < 2`
MinNameLength == 2
\* `prefersReducedMotion ? 0 : 100`
ReducedFocusDelay == 0
NormalFocusDelay == 100

(***************************************************************************)
(* Strings are sequences of characters.  Four characters are enough to     *)
(* tell apart every class the code's tests distinguish: white space, '@',  *)
(* '.', and any other character.                                           *)
(***************************************************************************)
Chars == {" ", "a", "@", "."}

WhiteSpace == {" "}

RECURSIVE StringsOfLen(_)
StringsOfLen(n) ==
  IF n = 0 THEN {<<>>}
  ELSE {Append(s, c) : s \in StringsOfLen(n - 1), c \in Chars}

Strings(n) == UNION {StringsOfLen(k) : k \in 0..n}

\* String.prototype.trim: drop the leading and the trailing white space
trim(s) ==
  LET keep == {i \in 1..Len(s) : s[i] \notin WhiteSpace}
  IN  IF keep = {} THEN <<>>
      ELSE LET lo == CHOOSE i \in keep : \A j \in keep : i <= j
               hi == CHOOSE i \in keep : \A j \in keep : j <= i
           IN  SubSeq(s, lo, hi)

\* /^[^\s@]+@[^\s@]+\.[^\s@]+$/.test(s)
emailRegex(s) ==
  \E at \in 1..Len(s), dot \in 1..Len(s) :
    /\ s[at] = "@"
    /\ s[dot] = "."
    /\ 1 < at
    /\ at + 1 < dot
    /\ dot < Len(s)
    /\ \A i \in 1..Len(s) : i # at => s[i] \notin (WhiteSpace \cup {"@"})

(***************************************************************************)
(* types.ts                                                                *)
(***************************************************************************)
Fields == {"name", "email"}

\* the value `undefined`
Undefined == "undefined"

NameRequired == "NameRequired"
NameTooShort == "NameTooShort"
EmailRequired == "EmailRequired"
EmailInvalid == "EmailInvalid"

\* a JavaScript object with no keys: FormErrors {} and the touched map {}
EmptyObject == [k \in {} |-> Undefined]

\* {...obj, [k]: v}
Put(obj, k, v) == [x \in (DOMAIN obj) \cup {k} |-> IF x = k THEN v ELSE obj[x]]

\* obj[k], `undefined` when the key is absent
Get(obj, k) == IF k \in DOMAIN obj THEN obj[k] ELSE Undefined

EmptyFormData == [f \in Fields |-> <<>>]

(***************************************************************************)
(* Modal.tsx: validation                                                   *)
(***************************************************************************)
\* mutant: the length test on the untrimmed value
validateField_UntrimmedLength(field, value) ==
  IF field = "name"
  THEN IF trim(value) = <<>> THEN NameRequired
       ELSE IF Len(value) < MinNameLength THEN NameTooShort
       ELSE Undefined
  ELSE IF trim(value) = <<>> THEN EmailRequired
       ELSE IF ~emailRegex(value) THEN EmailInvalid
       ELSE Undefined

\* /^\S+@\S+\.\S+$/.test(s): the pattern without the '@' in its classes
looseEmailRegex(s) ==
  \E at \in 1..Len(s), dot \in 1..Len(s) :
    /\ s[at] = "@"
    /\ s[dot] = "."
    /\ 1 < at
    /\ at + 1 < dot
    /\ dot < Len(s)
    /\ \A i \in 1..Len(s) : s[i] \notin WhiteSpace

\* mutant: the email pattern's classes exclude white space only
validateField_LooseEmail(field, value) ==
  IF field = "name"
  THEN IF trim(value) = <<>> THEN NameRequired
       ELSE IF Len(trim(value)) < MinNameLength THEN NameTooShort
       ELSE Undefined
  ELSE IF trim(value) = <<>> THEN EmailRequired
       ELSE IF ~looseEmailRegex(value) THEN EmailInvalid
       ELSE Undefined

validateField(field, value) ==
  IF field = "name"
  THEN IF trim(value) = <<>> THEN NameRequired
       ELSE IF Len(trim(value)) < MinNameLength THEN NameTooShort
       ELSE Undefined
  ELSE IF trim(value) = <<>> THEN EmailRequired
       ELSE IF ~emailRegex(value) THEN EmailInvalid
       ELSE Undefined

\* mutant: without `if (error)`, every field gets a key
validateForm_EveryKey(data) == [f \in Fields |-> validateField(f, data[f])]

\* only the fields that produced an error get a key
validateForm(data) ==
  [f \in {g \in Fields : validateField(g, data[g]) # Undefined}
     |-> validateField(f, data[f])]

(***************************************************************************)
(* The document.  An element is named by where the JSX puts it: "opener"   *)
(* is the Page's button; "name", "email", "cancel" and "submit" are the    *)
(* dialog's form controls; "body" is document.body (what                   *)
(* document.activeElement is when no element has focus).                   *)
(***************************************************************************)
\* container.querySelectorAll(focusableSelectors) for the content panel
\* (modalRef), in document order
getFocusableElements(container) ==
  IF container = "panel" THEN <<"name", "email", "cancel", "submit">> ELSE <<>>

\* modalRef.current.contains(el)
contains(container, el) ==
  \E i \in 1..Len(getFocusableElements(container)) :
    getFocusableElements(container)[i] = el

\* the tabbable elements of the whole document, in document order: the Page's
\* button, then (when the dialog is rendered) the dialog's controls
tabOrder(rendered) ==
  IF rendered THEN <<"opener">> \o getFocusableElements("panel")
  ELSE <<"opener">>

\* what a mouse can hit while the dialog is rendered: the backdrop covers the
\* page (fixed inset-0), the panel lies on it, the controls lie in the panel
ClickTargets == {"backdrop", "panel", "name", "email", "cancel", "submit"}

(***************************************************************************)
(* Promises (the deferred result of openFormModal).                        *)
(***************************************************************************)
NoResult == [kind |-> "none", data |-> EmptyFormData]
NullResult == [kind |-> "null", data |-> EmptyFormData]
DataResult(d) == [kind |-> "data", data |-> d]

PendingPromise == [state |-> "pending", value |-> NoResult, resolveCalls |-> 0]

\* modalState.resolve: 0 is `undefined`, i > 0 is the resolve function of the
\* i-th promise made by openFormModal
NoResolve == 0

ClosedModalState == [isOpen |-> FALSE, resolve |-> NoResolve]

(***************************************************************************)
(* State.                                                                  *)
(***************************************************************************)
VARIABLES
  modalState,          \* Page: useState<ModalState>
  promises,            \* the promises openFormModal has returned, in order
  formData,            \* Modal: useState<FormData>
  errors,              \* Modal: useState<FormErrors>
  touched,             \* Modal: useState<Partial<Record<keyof FormData, boolean>>>
  lastFocusedElement,  \* Modal: useRef, "null" or an element
  activeElement,       \* document.activeElement
  bodyOverflow,        \* document.body.style.overflow
  keydownListeners,    \* document's keydown listeners, each named by the
                       \* modalState.resolve its onClose closes over
  focusTimeouts,       \* pending setTimeout callbacks of the effect
  prefersReducedMotion,\* window.matchMedia('(prefers-reduced-motion: reduce)').matches
  onCloseCalls,        \* history: calls of onClose since the last Closed->Open
  onSubmitCalls,       \* history: calls of onSubmit since the last Closed->Open
  submitted,           \* history: the arguments of those onSubmit calls
  interrupted,         \* history: openFormModal was called while Open in this session
  lastEvent,           \* history: the event the last step handled
  probe                \* the input and the result of validateField (SpecValidate)

vars == <<modalState, promises, formData, errors, touched, lastFocusedElement,
          activeElement, bodyOverflow, keydownListeners, focusTimeouts,
          prefersReducedMotion, onCloseCalls, onSubmitCalls, submitted,
          interrupted, lastEvent, probe>>

\* The state as one record, so that a handler is a function from state to
\* state.  rendered (the dialog is in the DOM), pageDirty (setModalState was
\* called, the Page will re-render) and defaultPrevented (of the event being
\* dispatched) live only within one step.
Cur ==
  [modalState |-> modalState, promises |-> promises, formData |-> formData,
   errors |-> errors, touched |-> touched,
   lastFocusedElement |-> lastFocusedElement, activeElement |-> activeElement,
   bodyOverflow |-> bodyOverflow, keydownListeners |-> keydownListeners,
   focusTimeouts |-> focusTimeouts, prefersReducedMotion |-> prefersReducedMotion,
   onCloseCalls |-> onCloseCalls, onSubmitCalls |-> onSubmitCalls,
   submitted |-> submitted, interrupted |-> interrupted,
   rendered |-> modalState.isOpen, pageDirty |-> FALSE, defaultPrevented |-> FALSE]

Set(w) ==
  /\ modalState' = w.modalState
  /\ promises' = w.promises
  /\ formData' = w.formData
  /\ errors' = w.errors
  /\ touched' = w.touched
  /\ lastFocusedElement' = w.lastFocusedElement
  /\ activeElement' = w.activeElement
  /\ bodyOverflow' = w.bodyOverflow
  /\ keydownListeners' = w.keydownListeners
  /\ focusTimeouts' = w.focusTimeouts
  /\ prefersReducedMotion' = w.prefersReducedMotion
  /\ onCloseCalls' = w.onCloseCalls
  /\ onSubmitCalls' = w.onSubmitCalls
  /\ submitted' = w.submitted
  /\ interrupted' = w.interrupted

Event(type, target, key, shiftKey) ==
  [type |-> type, target |-> target, key |-> key, shiftKey |-> shiftKey,
   wasOpen |-> modalState.isOpen]

(***************************************************************************)
(* Modal.tsx: the field handlers                                           *)
(***************************************************************************)
handleBlur(w, field) ==
  [w EXCEPT !.touched = Put(@, field, TRUE),
            !.errors = Put(@, field, validateField(field, w.formData[field]))]

\* mutant: a change never validates
handleInputChange_NeverValidates(w, field, value) ==
  [w EXCEPT !.formData = [@ EXCEPT ![field] = value]]

\* mutant: without `if (touched[field])`, every change validates
handleInputChange_AlwaysValidates(w, field, value) ==
  [w EXCEPT !.formData = [@ EXCEPT ![field] = value],
            !.errors = Put(@, field, validateField(field, value))]

handleInputChange(w, field, value) ==
  LET w1 == [w EXCEPT !.formData = [@ EXCEPT ![field] = value]]
  IN  IF field \in DOMAIN w.touched /\ w.touched[field]
      THEN [w1 EXCEPT !.errors = Put(@, field, validateField(field, value))]
      ELSE w1

(***************************************************************************)
(* Focus.  el.focus() does nothing on an element that is not focusable     *)
(* (document.body) or not in the document (a control of the un-rendered    *)
(* dialog); when focus leaves an input of the rendered dialog, the input's *)
(* blur event runs handleBlur.                                             *)
(***************************************************************************)
focusable(w, el) ==
  el = "opener" \/ (w.rendered /\ contains("panel", el))

leave(w, el) ==
  LET w1 == [w EXCEPT !.activeElement = el]
  IN  IF w.rendered /\ w.activeElement \in Fields /\ w.activeElement # el
      THEN handleBlur(w1, w.activeElement)
      ELSE w1

focus(w, el) == IF focusable(w, el) THEN leave(w, el) ELSE w

\* a mouse press on el: focus moves to el, or to nothing when el takes no focus
mouseDown(w, el) == IF focusable(w, el) THEN leave(w, el) ELSE leave(w, "body")

(***************************************************************************)
(* Page.tsx                                                                *)
(***************************************************************************)
\* resolve(v) of the i-th promise: only the first call settles the promise
resolve(w, i, v) ==
  [w EXCEPT !.promises[i] =
     IF @.state = "pending"
     THEN [state |-> "fulfilled", value |-> v, resolveCalls |-> @.resolveCalls + 1]
     ELSE [@ EXCEPT !.resolveCalls = @ + 1]]

\* setModalState(ms): the new state, and the Page is to re-render
setModalState(w, ms) == [w EXCEPT !.modalState = ms, !.pageDirty = TRUE]

\* new Promise((resolve) => setModalState({ isOpen: true, resolve }))
openFormModal(w) ==
  LET i == Len(w.promises) + 1
      w1 == [w EXCEPT !.promises = Append(@, PendingPromise),
                      !.interrupted = w.modalState.isOpen,
                      !.onCloseCalls = IF w.modalState.isOpen THEN @ ELSE 0,
                      !.onSubmitCalls = IF w.modalState.isOpen THEN @ ELSE 0,
                      !.submitted = IF w.modalState.isOpen THEN @ ELSE {}]
  IN  setModalState(w1, [isOpen |-> TRUE, resolve |-> i])

\* mutant: the close handler forgets the pending promise
handleCloseModal_NoResolve(w, ms) ==
  setModalState([w EXCEPT !.onCloseCalls = @ + 1], ClosedModalState)

\* mutant: the modal is hidden and the handle is kept
handleCloseModal_KeepsHandle(w, ms) ==
  LET w1 == [w EXCEPT !.onCloseCalls = @ + 1]
      w2 == IF ms.resolve # NoResolve THEN resolve(w1, ms.resolve, NullResult) ELSE w1
  IN  setModalState(w2, [isOpen |-> FALSE, resolve |-> ms.resolve])

\* ms is the modalState of the render that made this closure
handleCloseModal(w, ms) ==
  LET w1 == [w EXCEPT !.onCloseCalls = @ + 1]
      w2 == IF ms.resolve # NoResolve THEN resolve(w1, ms.resolve, NullResult) ELSE w1
  IN  setModalState(w2, ClosedModalState)

handleFormSubmit(w, ms, data) ==
  LET w1 == [w EXCEPT !.onSubmitCalls = @ + 1, !.submitted = @ \cup {data}]
      w2 == IF ms.resolve # NoResolve
            THEN resolve(w1, ms.resolve, DataResult(data)) ELSE w1
  IN  setModalState(w2, ClosedModalState)

(***************************************************************************)
(* Modal.tsx: submission and the backdrop                                  *)
(***************************************************************************)
\* mutant: without the three resetting calls after onSubmit
handleSubmit_NoReset(w) ==
  LET formErrors == validateForm(w.formData)
      w1 == [w EXCEPT !.touched = [f \in Fields |-> TRUE], !.errors = formErrors]
  IN  IF DOMAIN formErrors = {}
      THEN handleFormSubmit(w1, w.modalState, w.formData)
      ELSE w1

\* mutant: without the test of the form's errors
handleSubmit_NoValidation(w) ==
  LET formErrors == validateForm(w.formData)
      w1 == [w EXCEPT !.touched = [f \in Fields |-> TRUE], !.errors = formErrors]
  IN  [handleFormSubmit(w1, w.modalState, w.formData)
         EXCEPT !.formData = EmptyFormData,
                !.errors = EmptyObject,
                !.touched = EmptyObject]

handleSubmit(w) ==
  LET formErrors == validateForm(w.formData)
      w1 == [w EXCEPT !.touched = [f \in Fields |-> TRUE], !.errors = formErrors]
  IN  IF DOMAIN formErrors = {}
      THEN [handleFormSubmit(w1, w.modalState, w.formData)
              EXCEPT !.formData = EmptyFormData,
                     !.errors = EmptyObject,
                     !.touched = EmptyObject]
      ELSE w1

\* mutant: the test inverted, e.target !== e.currentTarget
handleOverlayClick_Inverted(w, target) ==
  IF target # "backdrop" THEN handleCloseModal(w, w.modalState) ELSE w

\* e.target === e.currentTarget, the currentTarget being the backdrop
handleOverlayClick(w, target) ==
  IF target = "backdrop" THEN handleCloseModal(w, w.modalState) ELSE w

(***************************************************************************)
(* Modal.tsx: the effect                                                   *)
(***************************************************************************)
\* mutant: the preference is ignored
focusDelay_Ignored(w) == NormalFocusDelay

focusDelay(w) == IF w.prefersReducedMotion THEN ReducedFocusDelay ELSE NormalFocusDelay

\* the effect's body, run after a render of the Page
useEffect(w) ==
  IF ~w.modalState.isOpen THEN w
  ELSE [w EXCEPT !.lastFocusedElement = w.activeElement,
                 !.bodyOverflow = "hidden",
                 !.keydownListeners = @ \cup {w.modalState.resolve},
                 !.focusTimeouts =
                    @ \cup {[id |-> w.modalState.resolve, delay |-> focusDelay(w)]}]

\* mutant: without clearTimeout
cleanup_KeepsTimeout(w, ms) ==
  LET w1 == [w EXCEPT !.keydownListeners = @ \ {ms.resolve},
                      !.bodyOverflow = ""]
  IN  IF w1.lastFocusedElement # "null"
      THEN focus(w1, w1.lastFocusedElement)
      ELSE w1

\* mutant: without removeEventListener
cleanup_KeepsListener(w, ms) ==
  LET w1 == [w EXCEPT !.bodyOverflow = "",
                      !.focusTimeouts = {t \in @ : t.id # ms.resolve}]
  IN  IF w1.lastFocusedElement # "null"
      THEN focus(w1, w1.lastFocusedElement)
      ELSE w1

\* mutant: without the restoring of body.style.overflow
cleanup_KeepsScrollLock(w, ms) ==
  LET w1 == [w EXCEPT !.keydownListeners = @ \ {ms.resolve},
                      !.focusTimeouts = {t \in @ : t.id # ms.resolve}]
  IN  IF w1.lastFocusedElement # "null"
      THEN focus(w1, w1.lastFocusedElement)
      ELSE w1

\* the function the effect returned in the render whose modalState was ms
cleanup(w, ms) ==
  LET w1 == [w EXCEPT !.keydownListeners = @ \ {ms.resolve},
                      !.bodyOverflow = "",
                      !.focusTimeouts = {t \in @ : t.id # ms.resolve}]
  IN  IF w1.lastFocusedElement # "null"
      THEN focus(w1, w1.lastFocusedElement)
      ELSE w1

\* the setTimeout callback: firstInputRef.current?.focus()
focusTimeout(w, t) ==
  LET w1 == [w EXCEPT !.focusTimeouts = @ \ {t}]
  IN  IF w1.rendered THEN focus(w1, "name") ELSE w1

(***************************************************************************)
(* React: what follows the handlers of one event.  w0 is the state the     *)
(* event found, w the state the handlers left.  When setModalState was     *)
(* called the Page re-renders with a new handleCloseModal, so the effect's *)
(* dependency onClose has changed: the DOM is committed (`if (!isOpen)     *)
(* return null` removes the dialog, and the focus of a removed element     *)
(* falls to the body), the previous effect's cleanup runs if that render   *)
(* was open, then the effect's body.                                       *)
(***************************************************************************)
commit(w0, w) ==
  IF ~w.pageDirty THEN w
  ELSE LET w1 == IF w.modalState.isOpen
                 THEN [w EXCEPT !.rendered = TRUE]
                 ELSE [w EXCEPT !.rendered = FALSE,
                                !.activeElement =
                                   IF contains("panel", @) THEN "body" ELSE @]
           w2 == IF w0.modalState.isOpen THEN cleanup(w1, w0.modalState) ELSE w1
       IN  [useEffect(w2) EXCEPT !.pageDirty = FALSE]

(***************************************************************************)
(* Modal.tsx: the document's keydown listener                              *)
(***************************************************************************)
\* the listener the effect registered in the render whose modalState was ms
handleKeyDown(w, ms, key, shiftKey) ==
  IF key = "Escape" THEN handleCloseModal(w, ms)
  ELSE IF key = "Tab" /\ w.rendered
  THEN LET focusableElements == getFocusableElements("panel")
           firstElement == focusableElements[1]
           lastElement == focusableElements[Len(focusableElements)]
           outside == ~contains("panel", w.activeElement)
       IN  IF Len(focusableElements) = 0 THEN w
           ELSE IF shiftKey
           THEN IF w.activeElement = firstElement \/ outside
                THEN focus([w EXCEPT !.defaultPrevented = TRUE], lastElement)
                ELSE w
           ELSE IF w.activeElement = lastElement \/ outside
                THEN focus([w EXCEPT !.defaultPrevented = TRUE], firstElement)
                ELSE w
  ELSE w

\* every registered listener, one after the other
RECURSIVE runListeners(_, _, _, _)
runListeners(w, listeners, key, shiftKey) ==
  IF listeners = {} THEN w
  ELSE LET r == CHOOSE x \in listeners : \A y \in listeners : x <= y
       IN  runListeners(handleKeyDown(w, [isOpen |-> TRUE, resolve |-> r], key, shiftKey),
                        listeners \ {r}, key, shiftKey)

\* the browser's default action of Tab: focus moves to the next (Shift: the
\* previous) tabbable element of the document, and out of the document past
\* its last (first) one
sequentialFocus(w, shiftKey) ==
  LET order == tabOrder(w.rendered)
      at == {i \in 1..Len(order) : order[i] = w.activeElement}
      i == IF at = {} THEN (IF shiftKey THEN Len(order) + 1 ELSE 0)
           ELSE CHOOSE x \in at : TRUE
      j == IF shiftKey THEN i - 1 ELSE i + 1
  IN  IF j \in 1..Len(order) THEN leave(w, order[j]) ELSE leave(w, "body")

\* A keydown event on the focused element.  It bubbles from its target to the
\* React root, where React runs the JSX handlers on its path; the content
\* panel's onKeyDown={(e) => e.stopPropagation()} stops it there, so an event
\* from inside the panel never reaches the document's listeners.
keyDown(w, key, shiftKey) ==
  LET stopped == w.rendered /\ contains("panel", w.activeElement)
      w1 == IF stopped THEN w ELSE runListeners(w, w.keydownListeners, key, shiftKey)
  IN  IF key = "Tab" /\ ~w1.defaultPrevented THEN sequentialFocus(w1, shiftKey) ELSE w1

(***************************************************************************)
(* Modal.tsx: clicks.  The click handlers on the path from the target up:  *)
(* the Cancel button's onClick={onClose}, the submit button's form         *)
(* submission, the panel's onClick={(e) => e.stopPropagation()} and the    *)
(* backdrop's onClick={handleOverlayClick}.                                *)
(***************************************************************************)
click(w, target) ==
  LET w1 == IF target = "cancel" THEN handleCloseModal(w, w.modalState)
            ELSE IF target = "submit" THEN handleSubmit(w)
            ELSE w
  IN  IF target = "backdrop" THEN handleOverlayClick(w1, target) ELSE w1

(***************************************************************************)
(* Initial state: the Page is mounted, the Modal is mounted inside it and  *)
(* renders nothing.                                                        *)
(***************************************************************************)
NoProbe == [field |-> "name", value |-> <<>>, result |-> "unset"]

InitProgram ==
  /\ modalState = ClosedModalState
  /\ promises = <<>>
  /\ formData = EmptyFormData
  /\ errors = EmptyObject
  /\ touched = EmptyObject
  /\ lastFocusedElement = "null"
  /\ activeElement = "body"
  /\ bodyOverflow = ""
  /\ keydownListeners = {}
  /\ focusTimeouts = {}
  /\ prefersReducedMotion \in BOOLEAN
  /\ onCloseCalls = 0
  /\ onSubmitCalls = 0
  /\ submitted = {}
  /\ interrupted = FALSE
  /\ lastEvent = [type |-> "none", target |-> "body", key |-> "", shiftKey |-> FALSE,
                  wasOpen |-> FALSE]

Init == InitProgram /\ probe = NoProbe

(***************************************************************************)
(* What the user types.                                                    *)
(***************************************************************************)
TypedValues ==
  {<<>>, <<"a">>, <<"a", "a">>, <<"a", "@", "a", ".", "a">>}

(***************************************************************************)
(* Actions: one per event.                                                 *)
(***************************************************************************)
\* a mouse click on the Page's button; whether the click focuses the button
\* depends on the browser (some leave the focus where it was).  The backdrop
\* covers the button while Open, so a second open comes from the keyboard.
ClickOpenButton ==
  /\ ~modalState.isOpen
  /\ Len(promises) < MaxOpens
  /\ \E focuses \in BOOLEAN :
       LET w0 == IF focuses THEN mouseDown(Cur, "opener") ELSE Cur
       IN  Set(commit(w0, openFormModal(w0)))
  /\ lastEvent' = Event("click", "opener", "", FALSE)
  /\ UNCHANGED probe

\* Enter on the focused element: a button is clicked, an input submits its form.
\* The inputs are `required` and the second has type="email", so a browser may
\* withhold the submit event for some values (an empty one); which values is
\* the browser's matter, and every value is let through to handleSubmit here.
PressEnter ==
  /\ activeElement # "body"
  /\ activeElement = "opener" => Len(promises) < MaxOpens
  /\ LET w == keyDown(Cur, "Enter", FALSE)
         w1 == IF activeElement = "opener" THEN openFormModal(w)
               ELSE IF activeElement \in Fields THEN handleSubmit(w)
               ELSE click(w, activeElement)
     IN  Set(commit(Cur, w1))
  /\ lastEvent' = Event("keydown", activeElement, "Enter", FALSE)
  /\ UNCHANGED probe

FocusTimeoutFires ==
  /\ \E t \in focusTimeouts : Set(commit(Cur, focusTimeout(Cur, t)))
  /\ lastEvent' = Event("timeout", "name", "", FALSE)
  /\ UNCHANGED probe

InputChange ==
  /\ modalState.isOpen
  /\ \E field \in Fields, value \in TypedValues :
       /\ activeElement = field
       /\ value # formData[field]
       /\ Set(commit(Cur, handleInputChange(Cur, field, value)))
       /\ lastEvent' = Event("change", field, "", FALSE)
  /\ UNCHANGED probe

Click ==
  /\ modalState.isOpen
  /\ \E target \in ClickTargets :
       /\ Set(commit(Cur, click(mouseDown(Cur, target), target)))
       /\ lastEvent' = Event("click", target, "", FALSE)
  /\ UNCHANGED probe

KeyDown ==
  /\ \E key \in {"Escape", "Tab"}, shiftKey \in BOOLEAN :
       /\ key = "Escape" => ~shiftKey
       /\ Set(commit(Cur, keyDown(Cur, key, shiftKey)))
       /\ lastEvent' = Event("keydown", activeElement, key, shiftKey)
  /\ UNCHANGED probe

Next ==
  \/ ClickOpenButton
  \/ PressEnter
  \/ FocusTimeoutFires
  \/ InputChange
  \/ Click
  \/ KeyDown

Spec == Init /\ [][Next]_vars

(***************************************************************************)
(* validateField on its own: every field, every string of up to MaxLen     *)
(* characters.                                                             *)
(***************************************************************************)
InitValidate ==
  /\ InitProgram
  /\ probe \in [field : Fields, value : Strings(MaxLen), result : {"unset"}]

Validate ==
  /\ probe.result = "unset"
  /\ probe' = [probe EXCEPT !.result = validateField(probe.field, probe.value)]
  /\ UNCHANGED <<modalState, promises, formData, errors, touched, lastFocusedElement,
                 activeElement, bodyOverflow, keydownListeners, focusTimeouts,
                 prefersReducedMotion, onCloseCalls, onSubmitCalls, submitted,
                 interrupted, lastEvent>>

NextValidate == Validate

SpecValidate == InitValidate /\ [][NextValidate]_vars

(***************************************************************************)
(* Properties.                                                             *)
(***************************************************************************)
\* the step's event submits the form: the submit button is clicked, or Enter
\* is pressed on it or in an input
SubmitEvent(e) ==
  \/ e.type = "click" /\ e.target = "submit"
  \/ e.type = "keydown" /\ e.key = "Enter" /\ e.target \in Fields \cup {"submit"}

\* the step's event calls openFormModal
OpenEvent(e) ==
  \/ e.type = "click" /\ e.target = "opener"
  \/ e.type = "keydown" /\ e.key = "Enter" /\ e.target = "opener"

HasError(errs, f) == f \in DOMAIN errs /\ errs[f] # Undefined

IsTouched(t, f) == f \in DOMAIN t /\ t[f]

Failing(data) == {f \in Fields : validateField(f, data[f]) # Undefined}

LastPromise == promises[Len(promises)]

\* C1: in a session that no second open interrupted, no callback has been
\* called and the session's promise is pending while the modal is Open; once the
\* modal is Closed exactly one of onSubmit and onClose has been called, once,
\* and the promise has been fulfilled by exactly one call of resolve, with the
\* submitted values or with null; no promise is ever rejected.
C1_OneCallbackOneFulfilment ==
  /\ \A i \in 1..Len(promises) : promises[i].state \in {"pending", "fulfilled"}
  /\ (promises # <<>> /\ ~interrupted) =>
       IF modalState.isOpen
       THEN /\ onCloseCalls = 0 /\ onSubmitCalls = 0
            /\ LastPromise.state = "pending" /\ LastPromise.resolveCalls = 0
       ELSE /\ onCloseCalls + onSubmitCalls = 1
            /\ LastPromise.state = "fulfilled" /\ LastPromise.resolveCalls = 1
            /\ onCloseCalls = 1 => LastPromise.value = NullResult
            /\ onSubmitCalls = 1 =>
                 \E d \in submitted : submitted = {d} /\ LastPromise.value = DataResult(d)

C1_Witness ==
  /\ promises # <<>> /\ ~interrupted /\ ~modalState.isOpen
  /\ onSubmitCalls = 1 /\ LastPromise.value.kind = "data"

\* C2: after an Escape key press made while the modal was Open, wherever the
\* focus was, the modal is Closed, onClose has been called exactly once, the
\* promise is fulfilled with null and the element captured at open has focus.
C2_EscapeAlwaysCloses ==
  (lastEvent.type = "keydown" /\ lastEvent.key = "Escape" /\ lastEvent.wasOpen) =>
    /\ ~modalState.isOpen
    /\ onCloseCalls = 1
    /\ LastPromise.value = NullResult
    /\ activeElement = lastFocusedElement

\* C3: a submit, while Open, of values that both pass validateField calls
\* onSubmit exactly once with exactly those values (and onClose not at all),
\* fulfils the promise with them, closes the modal and leaves the values
\* empty, the errors empty and the touched flags empty.
C3_ValidSubmit ==
  [][(modalState.isOpen /\ SubmitEvent(lastEvent') /\ Failing(formData) = {}) =>
       /\ onSubmitCalls' = onSubmitCalls + 1
       /\ onCloseCalls' = onCloseCalls
       /\ submitted' = submitted \cup {formData}
       /\ promises'[modalState.resolve] =
            [state |-> "fulfilled", value |-> DataResult(formData), resolveCalls |-> 1]
       /\ ~modalState'.isOpen
       /\ formData' = EmptyFormData
       /\ errors' = EmptyObject
       /\ touched' = EmptyObject]_vars

C3_Witness ==
  /\ SubmitEvent(lastEvent) /\ lastEvent.wasOpen /\ ~modalState.isOpen
  /\ onSubmitCalls = 1 /\ submitted # {} /\ LastPromise.value.kind = "data"
  /\ formData = EmptyFormData /\ errors = EmptyObject /\ touched = EmptyObject

\* C4: a submit, while Open, of values of which at least one fails
\* validateField calls neither onSubmit nor onClose, leaves the modal Open, the
\* promises as they were and the values unchanged, marks every field touched
\* and stores an error for exactly the failing fields.
C4_InvalidSubmit ==
  [][(modalState.isOpen /\ SubmitEvent(lastEvent') /\ Failing(formData) # {}) =>
       /\ onSubmitCalls' = onSubmitCalls
       /\ onCloseCalls' = onCloseCalls
       /\ modalState' = modalState
       /\ promises' = promises
       /\ formData' = formData
       /\ \A f \in Fields : IsTouched(touched', f)
       /\ DOMAIN errors' = Failing(formData)
       /\ \A f \in Failing(formData) : errors'[f] = validateField(f, formData[f])]_vars

\* name = "a" (too short), email = "a@a.a": an error for name only
C4_Witness ==
  /\ SubmitEvent(lastEvent) /\ lastEvent.wasOpen /\ modalState.isOpen
  /\ formData = [name |-> <<"a">>, email |-> <<"a", "@", "a", ".", "a">>]
  /\ DOMAIN errors = {"name"} /\ errors["name"] = NameTooShort
  /\ \A f \in Fields : IsTouched(touched, f)
  /\ LastPromise.state = "pending"

\* C5: right after every Closed->Open transition the values are empty, the
\* errors are empty and no field is touched.
C5_FreshFormOnOpen ==
  (OpenEvent(lastEvent) /\ ~lastEvent.wasOpen /\ modalState.isOpen) =>
    /\ formData = EmptyFormData
    /\ \A f \in Fields : ~HasError(errors, f)
    /\ \A f \in Fields : ~IsTouched(touched, f)

\* C6: every Open->Closed transition leaves no keydown listener on the
\* document, background scrolling restored, and the focus on the element
\* captured at open.
C6_SameTeardown ==
  [][(modalState.isOpen /\ ~modalState'.isOpen) =>
       /\ keydownListeners' = {}
       /\ bodyOverflow' = ""
       /\ lastFocusedElement' = lastFocusedElement
       /\ activeElement' = lastFocusedElement]_vars

\* C7: after a Tab key press made while the modal was Open the focus is inside
\* the dialog: on the first focusable element when Tab was pressed on the last
\* one or outside the dialog, on the last when Shift+Tab was pressed on the
\* first one or outside the dialog.
C7_TabStaysInDialog ==
  (lastEvent.type = "keydown" /\ lastEvent.key = "Tab" /\ lastEvent.wasOpen) =>
    LET els == getFocusableElements("panel")
        outside == ~contains("panel", lastEvent.target)
    IN  /\ contains("panel", activeElement)
        /\ (~lastEvent.shiftKey /\ (lastEvent.target = els[Len(els)] \/ outside))
             => activeElement = els[1]
        /\ (lastEvent.shiftKey /\ (lastEvent.target = els[1] \/ outside))
             => activeElement = els[Len(els)]

\* a step in which the focus leaves field f of the open dialog (f's blur event)
\* and no accepted submit resets the form
Blurs(f) ==
  /\ modalState.isOpen
  /\ activeElement = f
  /\ activeElement' # f
  /\ onSubmitCalls' = onSubmitCalls

\* C8: a change of an untouched field sets the field's value, leaves the field
\* untouched and without an error message, whatever the new value; a blur of a
\* field, touched before or not, marks it touched and stores validateField of
\* its current value as its error.
C8_ChangeAndBlur ==
  [][/\ \A f \in Fields :
          (lastEvent'.type = "change" /\ lastEvent'.target = f /\ ~IsTouched(touched, f)) =>
            /\ \E v \in TypedValues : v # formData[f] /\ formData' = [formData EXCEPT ![f] = v]
            /\ ~HasError(errors, f) => ~HasError(errors', f)
            /\ errors' = errors
            /\ touched' = touched
     /\ \A f \in Fields :
          Blurs(f) =>
            /\ IsTouched(touched', f)
            /\ Get(errors', f) = validateField(f, formData[f])
            /\ formData' = formData]_vars

\* an invalid value typed into an untouched field, no error shown
C8_Witness ==
  /\ lastEvent.type = "change" /\ lastEvent.target = "email"
  /\ modalState.isOpen
  /\ ~IsTouched(touched, "email")
  /\ validateField("email", formData["email"]) = EmailInvalid
  /\ ~HasError(errors, "email")

\* C9: a promise that a later openFormModal has replaced while it was pending
\* stays pending for ever; the replacing call puts its own promise in the slot
\* and leaves the replaced one unfulfilled; the close or submit that ends the
\* session fulfils the newest promise and changes no other.
C9_SecondOpenReplaces ==
  [][/\ \A i \in 1..Len(promises) :
          (i < Len(promises) /\ promises[i].state = "pending") => promises'[i] = promises[i]
     /\ (modalState.isOpen /\ Len(promises') > Len(promises)) =>
          /\ modalState'.resolve = Len(promises')
          /\ promises'[Len(promises)].state = "pending"
          /\ promises'[Len(promises')].state = "pending"
     /\ (modalState.isOpen /\ ~modalState'.isOpen) =>
          /\ promises'[Len(promises)].state = "fulfilled"
          /\ \A i \in 1..(Len(promises) - 1) : promises'[i] = promises[i]]_vars

\* the first promise was replaced and is pending, the second is fulfilled
C9_Witness ==
  /\ Len(promises) >= 2
  /\ promises[1].state = "pending"
  /\ promises[2].state = "fulfilled"
  /\ ~modalState.isOpen

\* C10: validateField('name', v) returns an error if and only if trim(v) is
\* empty or has fewer than 2 characters.
C10_NameRule ==
  (probe.field = "name" /\ probe.result # "unset") =>
    ((probe.result # Undefined) <=>
       (trim(probe.value) = <<>> \/ Len(trim(probe.value)) < 2))

\* two characters of which one is white space: too short once trimmed
C10_Witness ==
  /\ probe.field = "name"
  /\ probe.result = NameTooShort
  /\ Len(probe.value) >= 2

\* the places of character c in s
Places(s, c) == {i \in 1..Len(s) : s[i] = c}

\* C11 as stated: validateField('email', v) returns an error if and only if
\* trim(v) is empty or v is not non-space characters, '@', non-space
\* characters, '.', non-space characters; a second '@' counts as a non-space
\* character.
C11_EmailRuleLoose ==
  (probe.field = "email" /\ probe.result # "unset") =>
    ((probe.result # Undefined) <=>
       (trim(probe.value) = <<>> \/ ~looseEmailRegex(probe.value)))

\* C11 as amended: validateField('email', v) returns an error if and only if
\* trim(v) is empty or v is not of the shape local@domain.tld with exactly one
\* '@', no white space, a non-empty local part, and after the '@' a '.' that
\* has at least one character on each side.
C11_EmailRule ==
  (probe.field = "email" /\ probe.result # "unset") =>
    LET v == probe.value
        shape == /\ Cardinality(Places(v, "@")) = 1
                 /\ Places(v, " ") = {}
                 /\ \A at \in Places(v, "@") :
                      /\ at > 1
                      /\ \E dot \in Places(v, ".") : at + 1 < dot /\ dot < Len(v)
    IN  (probe.result # Undefined) <=> (trim(v) = <<>> \/ ~shape)

\* a value with two '@' that the looser shape accepts and the code rejects
C11_Witness ==
  /\ probe.field = "email"
  /\ probe.result = EmailInvalid
  /\ Cardinality(Places(probe.value, "@")) = 2
  /\ looseEmailRegex(probe.value)

\* C12: while Open, a click on the backdrop itself calls onClose (once, and the
\* modal closes); a click inside the content panel anywhere but on the Cancel
\* button calls no onClose.
C12_BackdropClick ==
  [][(modalState.isOpen /\ lastEvent'.type = "click") =>
       /\ lastEvent'.target = "backdrop" =>
            /\ onCloseCalls' = onCloseCalls + 1
            /\ ~modalState'.isOpen
       /\ lastEvent'.target \in {"panel", "name", "email", "submit"} =>
            onCloseCalls' = onCloseCalls]_vars

C12_Witness ==
  /\ lastEvent.type = "click" /\ lastEvent.target = "backdrop" /\ lastEvent.wasOpen
  /\ ~modalState.isOpen
  /\ onCloseCalls = 1
  /\ LastPromise.value = NullResult

\* C13: the step that closes the modal, by whatever path, itself clears the
\* focus timer, removes the keydown listener and makes the cleanup's focus
\* call (the focus is on the captured element when that is the page's button,
\* and never in the dialog); while the modal is Closed no focus timer is
\* pending, no timer fires and the focus is not on a field.
C13_TimerClearedOnClose ==
  [][/\ (modalState.isOpen /\ ~modalState'.isOpen) =>
          /\ focusTimeouts' = {}
          /\ keydownListeners' = {}
          /\ lastFocusedElement = "opener" => activeElement' = "opener"
     /\ ~modalState'.isOpen =>
          /\ focusTimeouts' = {}
          /\ ~contains("panel", activeElement')
     /\ ~modalState.isOpen => lastEvent'.type # "timeout"]_vars

\* the first session was closed by Escape while its focus timer was pending:
\* the focus never reached the name input (leaving it would have touched it)
C13_Witness ==
  /\ Len(promises) = 1 /\ ~modalState.isOpen
  /\ lastEvent.type = "keydown" /\ lastEvent.key = "Escape" /\ lastEvent.wasOpen
  /\ lastEvent.target = "opener"
  /\ touched = EmptyObject
  /\ focusTimeouts = {} /\ keydownListeners = {}
  /\ activeElement = "opener"

\* C14: for each field f, if f is touched its stored error is
\* validateField(f, current value of f), and if f is untouched it has no
\* stored error.
C14_ErrorsFollowTouched ==
  \A f \in Fields :
    IF IsTouched(touched, f)
    THEN Get(errors, f) = validateField(f, formData[f])
    ELSE ~HasError(errors, f)

\* a touched field was changed to a value that is too short and holds that
\* value's error, while the other field is still untouched
C14_Witness ==
  /\ lastEvent.type = "change" /\ lastEvent.target = "name"
  /\ IsTouched(touched, "name")
  /\ formData["name"] = <<"a">>
  /\ Get(errors, "name") = NameTooShort
  /\ ~IsTouched(touched, "email")

\* C15 as stated: under the reduced-motion preference the focus is on the first
\* field as soon as the Closed->Open transition is made, and no focus timer is
\* pending then.
C15_NoTimerUnderReducedMotion ==
  (prefersReducedMotion /\ OpenEvent(lastEvent) /\ ~lastEvent.wasOpen /\ modalState.isOpen) =>
    /\ activeElement = "name"
    /\ focusTimeouts = {}

\* C15 as amended: the preference sets the delay of the focus timer to 0 ms
\* instead of 100 ms and does not remove the timer: right after every
\* Closed->Open transition, with or without the preference, exactly one focus
\* timer is pending, with that delay, and the focus is still on the element
\* captured at open.
C15_DelayZeroUnderReducedMotion ==
  /\ \A t \in focusTimeouts :
       t.delay = IF prefersReducedMotion THEN 0 ELSE 100
  /\ (OpenEvent(lastEvent) /\ ~lastEvent.wasOpen /\ modalState.isOpen) =>
       /\ Cardinality(focusTimeouts) = 1
       /\ \A t \in focusTimeouts : t.id = modalState.resolve
       /\ activeElement = lastFocusedElement
       /\ ~contains("panel", activeElement)

\* the intermediate state under reduced motion
C15_Witness ==
  /\ prefersReducedMotion
  /\ OpenEvent(lastEvent) /\ ~lastEvent.wasOpen /\ modalState.isOpen
  /\ focusTimeouts = {[id |-> modalState.resolve, delay |-> 0]}
  /\ activeElement = "opener"

\* C16: in every reachable state the page holds a handle exactly when the modal
\* is Open; the handle it holds is the resolve function of the last promise
\* openFormModal returned, which is still pending: openFormModal stores it, and
\* the close handler and the submit handler leave none.
C16_HandleIffOpen ==
  /\ modalState.isOpen <=> modalState.resolve # NoResolve
  /\ modalState.isOpen =>
       /\ modalState.resolve = Len(promises)
       /\ LastPromise.state = "pending"

\* both ways of discarding have happened: a session closed by an accepted
\* submit and a later one closed by Escape, each leaving no handle
C16_Witness ==
  /\ Len(promises) = 2
  /\ promises[1].value.kind = "data"
  /\ promises[2].value = NullResult
  /\ lastEvent.type = "keydown" /\ lastEvent.key = "Escape" /\ lastEvent.wasOpen
  /\ ~modalState.isOpen
  /\ modalState.resolve = NoResolve

\* C17: in every reachable state background scrolling is locked exactly when
\* the modal is Open, and the document has one keydown listener when the modal
\* is Open and none when it is Closed; after a second open while Open the one
\* listener is that of the new session.
C17_LockAndListenerIffOpen ==
  /\ (bodyOverflow = "hidden") <=> modalState.isOpen
  /\ Cardinality(keydownListeners) = IF modalState.isOpen THEN 1 ELSE 0
  /\ modalState.isOpen => keydownListeners = {modalState.resolve}

\* a second open while Open: the effect ran again and left one listener, that
\* of the second session, and the lock
C17_Witness ==
  /\ interrupted
  /\ OpenEvent(lastEvent) /\ lastEvent.wasOpen
  /\ modalState.isOpen
  /\ keydownListeners = {2}
  /\ bodyOverflow = "hidden"

\* C18: every value other than null that a promise returned by openFormModal
\* was fulfilled with passes validateField on both fields, and so does every
\* value handed to onSubmit.
C18_OnlyValidDataDelivered ==
  /\ \A i \in 1..Len(promises) :
       promises[i].value.kind = "data" =>
         \A f \in Fields : validateField(f, promises[i].value.data[f]) = Undefined
  /\ \A data \in submitted : Failing(data) = {}

\* an accepted submit has just fulfilled the session's promise with the typed
\* values, which are valid
C18_Witness ==
  /\ SubmitEvent(lastEvent) /\ lastEvent.wasOpen
  /\ ~modalState.isOpen
  /\ LastPromise.state = "fulfilled"
  /\ LastPromise.value.kind = "data"
  /\ LastPromise.value.data["name"] = <<"a", "a">>
  /\ LastPromise.value.data["email"] = <<"a", "@", "a", ".", "a">>

====
